---- MODULE Spec2Model ----
(***************************************************************************)
(* Line-timestamp plugin of iscii/obsidian-timestamps.                     *)
(*                                                                         *)
(* The repository holds two copies of the plugin: src/main.ts (class       *)
(* MyPlugin, debounced by updatedTimestamp/updateTimer) and                *)
(* src/src/main.ts (class Timestamps, debounce commented out, file-open    *)
(* handler).  The variable build says which copy is running.               *)
(*                                                                         *)
(* Host state (Obsidian): the active file, the editor content of every     *)
(* file, the metadata file on disk, the wall clock.  Plugin state: the     *)
(* storage says whether the vault adapter can be reached at the moment.    *)
(* debounce flag and timer, the async handlers in flight (one slot per     *)
(* pending handleEditorChange promise, suspended at an await), the overlay.*)
(* The history variable log records every editor-change event and what     *)
(* became of it; only the properties read it.                              *)
(*                                                                         *)
(* The plugin imports diff from fast-myers-diff and never calls it.  The   *)
(* line diff engine the design describes is modelled on its own, over the  *)
(* variable diffed (two line sequences and the edit script computed for    *)
(* them), in DiffSpec.                                                     *)
(***************************************************************************)
EXTENDS Integers, Sequences, FiniteSets, TLC

VARIABLES build, loaded, activeFile, content, file, storage, clock,
          updatedTimestamp, updateTimer, handlers, opener, overlay, log,
          diffed

vars == <<build, loaded, activeFile, content, file, storage, clock,
          updatedTimestamp, updateTimer, handlers, opener, overlay, log,
          diffed>>

(***************************************************************************)
(* Bounds of the model.                                                    *)
(***************************************************************************)
\* number of editor-change events in a run (each reads the clock once)
MaxTime == 2
\* longest document, in lines
MaxLines == 3
\* most lines one edit inserts (a paste)
MaxPaste == 2
\* handleEditorChange promises pending at once
MaxHandlers == 2

(***************************************************************************)
(* The vault: two files with the same name in different folders.           *)
(* TFile.path is the vault-relative path, TFile.name the base name.        *)
(***************************************************************************)
Paths == {"a.md", "dir/a.md"}

Name(path) == IF path = "dir/a.md" THEN "a.md" ELSE path

\* text of a line; "" is the empty line
Texts == {"", "a"}

Builds == {"main", "src/main"}

(***************************************************************************)
(* new Date().toISOString(): the instant as a string, and its inverse      *)
(* (new Date(timestamp)).  Instant 0 is the time of the stamps a           *)
(* pre-existing store holds.                                               *)
(***************************************************************************)
ToISOString(t) == "T" \o ToString(t)

Instants == 0 .. (MaxTime + 1)

InstantOf(s) == CHOOSE t \in Instants : ToISOString(t) = s

(***************************************************************************)
(* lineNumber.toString(), and the number a property key denotes            *)
(* (timestamps[fileName][i] looks up the key String(i)).                   *)
(***************************************************************************)
LineKey(n) == ToString(n)

LineNumbers == 0 .. MaxLines

LineOf(key) == CHOOSE n \in LineNumbers : LineKey(n) = key

(***************************************************************************)
(* A JavaScript object of type Timestamps: val maps each property (a file  *)
(* path) to a line map (line key -> ISO string); keys is the insertion     *)
(* order of the paths, which is the order JSON.stringify writes them in.   *)
(* The keys of a line map are integer-like, which JavaScript always        *)
(* enumerates in ascending numeric order, so a line map needs no order.    *)
(***************************************************************************)
EmptyMap == [k \in {} |-> ""]

EmptyObject == [keys |-> <<>>, val |-> [p \in {} |-> EmptyMap]]

Has(obj, path) == path \in DOMAIN obj.val

RECURSIVE SortedLines(_)
SortedLines(S) ==
    IF S = {} THEN <<>>
    ELSE LET lo == CHOOSE n \in S : \A m \in S : n <= m
         IN  <<lo>> \o SortedLines(S \ {lo})

\* JSON.stringify of a line map: its entries, integer keys ascending
StringifyMap(m) ==
    LET order == SortedLines({LineOf(k) : k \in DOMAIN m})
    IN  [i \in 1 .. Len(order) |-> <<LineKey(order[i]), m[LineKey(order[i])]>>]

\* JSON.stringify(metadata, null, 2): the file text, as the ordered entries
JSONstringify(obj) ==
    [i \in 1 .. Len(obj.keys) |-> <<obj.keys[i], StringifyMap(obj.val[obj.keys[i]])>>]

ParseMap(entries) ==
    [k \in {entries[i][1] : i \in 1 .. Len(entries)} |->
        LET i == CHOOSE j \in 1 .. Len(entries) : entries[j][1] = k
        IN  entries[i][2]]

\* the slip of a parser that returns the documents sorted by path, not in
\* the order of the text
JSONparseSorted(text) ==
    LET inText(p) == \E i \in 1 .. Len(text) : text[i][1] = p
    IN  [keys |-> SelectSeq(<<"a.md", "dir/a.md">>, inText),
         val  |-> [p \in {text[i][1] : i \in 1 .. Len(text)} |->
                     LET i == CHOOSE j \in 1 .. Len(text) : text[j][1] = p
                     IN  ParseMap(text[i][2])]]

\* JSON.parse(metadataFile)
JSONparse(text) ==
    [keys |-> [i \in 1 .. Len(text) |-> text[i][1]],
     val  |-> [p \in {text[i][1] : i \in 1 .. Len(text)} |->
                 LET i == CHOOSE j \in 1 .. Len(text) : text[j][1] = p
                 IN  ParseMap(text[i][2])]]

(***************************************************************************)
(* The metadata file METADATA_FILE of the vault adapter.  parses says      *)
(* whether JSON.parse accepts its text; text holds the entries when it     *)
(* does.                                                                   *)
(***************************************************************************)
NotFound == [exists |-> FALSE, parses |-> FALSE, text |-> <<>>]

FileWith(text) == [exists |-> TRUE, parses |-> TRUE, text |-> text]

\* a file whose text is not JSON (a truncated or hand-damaged file)
Corrupt == [exists |-> TRUE, parses |-> FALSE, text |-> <<>>]

\* the slip of taking a store that cannot be loaded for an empty one
LoadableOrEmpty == TRUE

\* loadMetadata resolves: adapter.read resolves and JSON.parse returns
Loadable == storage = "ok" /\ file.exists /\ file.parses

\* what the store on disk holds, as path -> line map (nothing when there is
\* no file or no JSON in it)
Persisted == IF file.exists /\ file.parses THEN JSONparse(file.text).val
             ELSE EmptyObject.val

EntryMap(store, path) == IF path \in DOMAIN store THEN store[path] ELSE EmptyMap

\* a store in which every line of every document was stamped at instant 0
FullStore(c) ==
    LET m(path) == [k \in {LineKey(n) : n \in 0 .. (Len(c[path]) - 1)} |-> ToISOString(0)]
    IN  JSONstringify([keys |-> <<"a.md", "dir/a.md">>,
                       val  |-> [p \in Paths |-> m(p)]])

(***************************************************************************)
(* overlayTimestamps(view, timestamps): the lines of the active view are   *)
(* walked from 0; timestamps[fileName][i] is read with fileName the NAME   *)
(* of the active file, so it throws a TypeError on the first line when the *)
(* object has no property of that name.  The old overlay container has     *)
(* been removed and an empty one appended by then.  A badge is shown for   *)
(* every line with a timestamp and a non-empty text.                       *)
(***************************************************************************)
overlayTimestamps(timestamps, active, lines) ==
    LET fileName == Name(active)
        throws   == Len(lines) > 0 /\ ~Has(timestamps, fileName)
    IN  [threw |-> throws,
         shown |-> IF throws THEN {}
                   ELSE {<<i, timestamps.val[fileName][LineKey(i)]>> :
                            i \in {n \in 0 .. (Len(lines) - 1) :
                                     /\ LineKey(n) \in DOMAIN timestamps.val[fileName]
                                     /\ lines[n + 1] # ""}}]

NoOverlay == [threw |-> FALSE, shown |-> {}]

(***************************************************************************)
(* updateLineTimestamp, between its two awaits: the loaded object gets an  *)
(* empty line map for filePath if it has none, then the one property       *)
(* lineNumber.toString() of that map is set.                               *)
(***************************************************************************)
\* the slip of giving filePath a new line map on every call
SetLineFresh(metadata, filePath, lineNumber, timestamp) ==
    LET withFile == IF Has(metadata, filePath) THEN metadata
                    ELSE [keys |-> Append(metadata.keys, filePath),
                          val  |-> (filePath :> EmptyMap) @@ metadata.val]
    IN  [withFile EXCEPT !.val[filePath] = (LineKey(lineNumber) :> timestamp)]

\* the slip of saving an object that holds filePath alone
SetLineAlone(metadata, filePath, lineNumber, timestamp) ==
    LET lines == IF Has(metadata, filePath) THEN metadata.val[filePath] ELSE EmptyMap
    IN  [keys |-> <<filePath>>,
         val  |-> (filePath :> ((LineKey(lineNumber) :> timestamp) @@ lines))]

SetLine(metadata, filePath, lineNumber, timestamp) ==
    LET withFile == IF Has(metadata, filePath) THEN metadata
                    ELSE [keys |-> Append(metadata.keys, filePath),
                          val  |-> (filePath :> EmptyMap) @@ metadata.val]
    IN  [withFile EXCEPT !.val[filePath] = (LineKey(lineNumber) :> timestamp) @@ @]

(***************************************************************************)
(* Handlers in flight.  pc is the await the promise is suspended at:       *)
(*   "read"   adapter.read in loadMetadata                                 *)
(*   "mkdir"  vault.createFolder in saveMetadata                           *)
(*   "create" vault.create in saveMetadata                                 *)
(*   "write"  adapter.write in saveMetadata                                *)
(* id is the number of the editor-change event (its place in log).         *)
(***************************************************************************)
Slots == 1 .. MaxHandlers

\* no content handed to the diff engine
NoDiff == [given |-> FALSE, oldLines |-> <<>>, newLines |-> <<>>, script |-> <<>>]

Idle == [pc |-> "idle", id |-> 0, filePath |-> "", lineNumber |-> 0,
         timestamp |-> "", metadata |-> EmptyObject, content |-> <<>>]

Busy == {h \in Slots : handlers[h].pc # "idle"}

Quiescent == Busy = {}

Init ==
    /\ build \in Builds
    /\ loaded = "loading"
    /\ activeFile \in Paths
    /\ content = [p \in Paths |-> <<"a", "a">>]
    /\ file \in {NotFound, FileWith(<<>>), FileWith(FullStore(content))}
    /\ storage = "ok"
    /\ clock = 1
    /\ updatedTimestamp = FALSE
    /\ updateTimer = FALSE
    /\ handlers = [h \in Slots |-> Idle]
    /\ opener = "idle"
    /\ overlay = NoOverlay
    /\ log = <<>>
    /\ diffed = NoDiff

(***************************************************************************)
(* onload.  src/src/main.ts registers its two event handlers and is done.  *)
(* src/main.ts first awaits loadMetadata and, when a markdown view is      *)
(* open, overlays; a rejection of either leaves onload before the          *)
(* editor-change handler is registered.                                    *)
(***************************************************************************)
onload ==
    /\ loaded = "loading"
    /\ IF build = "src/main"
       THEN /\ loaded' = "ready"
            /\ overlay' = overlay
       ELSE \E view \in BOOLEAN :
              IF ~Loadable
              THEN /\ loaded' = "failed"
                   /\ overlay' = overlay
              ELSE LET r == overlayTimestamps(JSONparse(file.text), activeFile,
                                              content[activeFile])
                   IN  IF view
                       THEN /\ overlay' = r
                            /\ loaded' = IF r.threw THEN "failed" ELSE "ready"
                       ELSE /\ overlay' = overlay
                            /\ loaded' = "ready"
    /\ updatedTimestamp' = FALSE
    /\ UNCHANGED <<diffed, build, storage, activeFile, content, file, clock, updateTimer,
                   handlers, opener, log>>

(***************************************************************************)
(* An editor-change event: the host has applied an edit to the active      *)
(* file and calls handleEditorChange(editor).  Up to the first await the   *)
(* handler reads the active file, the debounce flag (src/main.ts only),    *)
(* the cursor line and the clock, and calls updateLineTimestamp, which     *)
(* suspends in adapter.read.  edit describes the edit for the log.         *)
(***************************************************************************)
Registered == loaded = "ready"

Debounced == build = "main" /\ updatedTimestamp

FreeSlot == CHOOSE h \in Slots : handlers[h].pc = "idle" /\
                                 \A g \in Slots : handlers[g].pc = "idle" => h <= g

Event(line, edit, status) ==
    [path |-> activeFile, line |-> line, timestamp |-> ToISOString(clock),
     edit |-> edit, status |-> status, stored |-> file.exists, alone |-> Quiescent,
     pre |-> Persisted, post |-> Persisted]

handleEditorChange(newLines, line, edit) ==
    /\ loaded # "loading"
    /\ clock <= MaxTime
    /\ content' = [content EXCEPT ![activeFile] = newLines]
    /\ clock' = clock + 1
    /\ IF ~Registered
       THEN /\ log' = Append(log, Event(line, edit, "unregistered"))
            /\ handlers' = handlers
       ELSE IF Debounced
       THEN /\ log' = Append(log, Event(line, edit, "dropped"))
            /\ handlers' = handlers
       ELSE /\ \E h \in Slots : handlers[h].pc = "idle"
            /\ handlers' = [handlers EXCEPT ![FreeSlot] =
                   [pc |-> "read", id |-> Len(log) + 1, filePath |-> activeFile,
                    lineNumber |-> line, timestamp |-> ToISOString(clock),
                    metadata |-> EmptyObject, content |-> <<>>]]
            /\ log' = Append([i \in 1 .. Len(log) |->
                                 IF \E h \in Busy : handlers[h].id = i
                                 THEN [log[i] EXCEPT !.alone = FALSE] ELSE log[i]],
                             Event(line, edit, "pending"))
    /\ UNCHANGED <<diffed, build, storage, loaded, activeFile, file, updatedTimestamp, updateTimer,
                   opener, overlay>>

Edit(kind, k, m, old, new) ==
    [kind |-> kind, k |-> k, m |-> m, oldLen |-> Len(old), newLen |-> Len(new)]

Copies(m, t) == [i \in 1 .. m |-> t]

\* m new empty lines become lines k .. k+m-1; the cursor ends on the last
InsertLines ==
    LET old == content[activeFile]
    IN  \E k \in 0 .. Len(old), m \in 1 .. MaxPaste :
          /\ Len(old) + m <= MaxLines
          /\ LET new == SubSeq(old, 1, k) \o Copies(m, "") \o SubSeq(old, k + 1, Len(old))
             IN  handleEditorChange(new, k + m - 1, Edit("insert", k, m, old, new))

\* lines i .. j-1 are removed (never all of them); the cursor ends where they were
DeleteLines ==
    LET old == content[activeFile]
    IN  \E i \in 0 .. (Len(old) - 1) :
        \E j \in (i + 1) .. Len(old) :
          /\ j - i < Len(old)
          /\ LET new == SubSeq(old, 1, i) \o SubSeq(old, j + 1, Len(old))
                 line == IF i < Len(new) THEN i ELSE Len(new) - 1
             IN  handleEditorChange(new, line, Edit("delete", i, j - i, old, new))

\* the text of line k changes; the cursor is on line k
ReplaceLine ==
    LET old == content[activeFile]
    IN  \E k \in 0 .. (Len(old) - 1) :
        \E t \in Texts \ {old[k + 1]} :
          handleEditorChange([old EXCEPT ![k + 1] = t], k,
                             Edit("replace", k, 1, old, [old EXCEPT ![k + 1] = t]))

\* a change event that leaves the content as it was, the cursor on line k
RepeatChange ==
    LET old == content[activeFile]
    IN  \E k \in 0 .. (Len(old) - 1) :
          handleEditorChange(old, k, Edit("none", k, 0, old, old))

(***************************************************************************)
(* The continuations of a pending handler.                                 *)
(***************************************************************************)
Settle(h, status, text) ==
    log' = [log EXCEPT ![handlers[h].id] =
               [@ EXCEPT !.status = status, !.post = JSONparse(text).val]]

\* the slip of marking the change as stamped whether or not the await of
\* updateLineTimestamp resolved (the flag set in a finally clause)
RejectedAdvancing(h, status) ==
    /\ handlers' = [handlers EXCEPT ![h] = Idle]
    /\ log' = [log EXCEPT ![handlers[h].id] =
                  [@ EXCEPT !.status = status, !.post = Persisted]]
    /\ updatedTimestamp' = (build = "main")
    /\ updateTimer' = (build = "main")
    /\ UNCHANGED <<file, overlay>>

\* the await of updateLineTimestamp in handleEditorChange rejects: the
\* statements after it (the debounce flag and timer of src/main.ts) are
\* skipped and the promise of the handler rejects
Rejected(h, status) ==
    /\ handlers' = [handlers EXCEPT ![h] = Idle]
    /\ log' = [log EXCEPT ![handlers[h].id] =
                  [@ EXCEPT !.status = status, !.post = Persisted]]
    /\ UNCHANGED <<file, overlay, updatedTimestamp, updateTimer>>

\* loadMetadata settles: a rejection of adapter.read or a throw of JSON.parse
\* leaves the handler; otherwise the update of the object and JSON.stringify
\* run up to the createFolder await
updateLineTimestamp(h) ==
    LET me == handlers[h]
    IN  /\ me.pc = "read"
        /\ IF ~Loadable
           THEN Rejected(h, "loadFailed")
           ELSE LET metadata == SetLine(JSONparse(file.text), me.filePath,
                                        me.lineNumber, me.timestamp)
                IN  /\ handlers' = [handlers EXCEPT ![h] =
                           [me EXCEPT !.pc = "mkdir", !.metadata = metadata,
                                      !.content = JSONstringify(metadata)]]
                    /\ UNCHANGED <<file, overlay, updatedTimestamp, updateTimer, log>>
        /\ UNCHANGED <<diffed, build, storage, loaded, activeFile, content, clock, opener>>

\* vault.createFolder settles; its rejection (folder exists) is swallowed
createFolder(h) ==
    /\ handlers[h].pc = "mkdir"
    /\ handlers' = [handlers EXCEPT ![h].pc = "create"]
    /\ UNCHANGED <<diffed, build, storage, loaded, activeFile, content, file, clock,
                   updatedTimestamp, updateTimer, opener, overlay, log>>

\* the slip of setting the debounce flag without arming its timer
SavedTimerless(h) ==
    LET r == overlayTimestamps(handlers[h].metadata, activeFile, content[activeFile])
    IN  /\ overlay' = r
        /\ handlers' = [handlers EXCEPT ![h] = Idle]
        /\ Settle(h, IF r.threw THEN "overlayThrew" ELSE "saved", handlers[h].content)
        /\ IF build = "main" /\ ~r.threw
           THEN updatedTimestamp' = TRUE /\ updateTimer' = updateTimer
           ELSE UNCHANGED <<updatedTimestamp, updateTimer>>

\* what follows saveMetadata: the overlay of the saved object on the view
\* that is active now and, in src/main.ts, the debounce flag and its timer
Saved(h) ==
    LET r == overlayTimestamps(handlers[h].metadata, activeFile, content[activeFile])
    IN  /\ overlay' = r
        /\ handlers' = [handlers EXCEPT ![h] = Idle]
        /\ Settle(h, IF r.threw THEN "overlayThrew" ELSE "saved", handlers[h].content)
        /\ IF build = "main" /\ ~r.threw
           THEN updatedTimestamp' = TRUE /\ updateTimer' = TRUE
           ELSE UNCHANGED <<updatedTimestamp, updateTimer>>

\* vault.create settles: it writes the file when there is none and rejects
\* when there is one, and then adapter.write is awaited
create(h) ==
    /\ handlers[h].pc = "create"
    /\ IF ~file.exists /\ storage = "ok"
       THEN /\ file' = FileWith(handlers[h].content)
            /\ Saved(h)
       ELSE /\ handlers' = [handlers EXCEPT ![h].pc = "write"]
            /\ UNCHANGED <<file, overlay, log, updatedTimestamp, updateTimer>>
    /\ UNCHANGED <<diffed, build, storage, loaded, activeFile, content, clock, opener>>

\* adapter.write settles; its rejection is the rejection of saveMetadata
write(h) ==
    /\ handlers[h].pc = "write"
    /\ IF storage = "ok"
       THEN /\ file' = FileWith(handlers[h].content)
            /\ Saved(h)
       ELSE Rejected(h, "saveFailed")
    /\ UNCHANGED <<diffed, build, storage, loaded, activeFile, content, clock, opener>>

\* the 2000 ms timer of src/main.ts fires
timerExpired ==
    /\ updateTimer
    /\ updatedTimestamp' = FALSE
    /\ updateTimer' = FALSE
    /\ UNCHANGED <<diffed, build, storage, loaded, activeFile, content, file, clock, handlers,
                   opener, overlay, log>>

(***************************************************************************)
(* file-open: another file becomes the active one.  src/src/main.ts        *)
(* handles the event by loading the store and overlaying it.               *)
(***************************************************************************)
fileOpen ==
    /\ loaded # "loading"
    /\ \E f \in Paths \ {activeFile} : activeFile' = f
    /\ IF build = "src/main" /\ Registered
       THEN opener = "idle" /\ opener' = "read"
       ELSE opener' = opener
    /\ UNCHANGED <<diffed, build, storage, loaded, content, file, clock, updatedTimestamp,
                   updateTimer, handlers, overlay, log>>

fileOpened ==
    /\ opener = "read"
    /\ opener' = "idle"
    /\ overlay' = IF ~Loadable THEN overlay
                  ELSE overlayTimestamps(JSONparse(file.text), activeFile,
                                         content[activeFile])
    /\ UNCHANGED <<diffed, build, storage, loaded, activeFile, content, file, clock,
                   updatedTimestamp, updateTimer, handlers, log>>

Next ==
    \/ onload
    \/ InsertLines
    \/ DeleteLines
    \/ ReplaceLine
    \/ RepeatChange
    \/ \E h \in Slots : updateLineTimestamp(h)
    \/ \E h \in Slots : createFolder(h)
    \/ \E h \in Slots : create(h)
    \/ \E h \in Slots : write(h)
    \/ timerExpired
    \/ fileOpen
    \/ fileOpened

Spec == Init /\ [][Next]_vars

(***************************************************************************)
(* Faults of the storage under the plugin: the vault adapter stops         *)
(* answering (every adapter and vault call rejects) and answers again,     *)
(* and the metadata file is damaged by something other than the plugin.    *)
(***************************************************************************)
storageFails ==
    /\ storage = "ok"
    /\ storage' = "unavailable"
    /\ UNCHANGED <<diffed, build, loaded, activeFile, content, file, clock,
                   updatedTimestamp, updateTimer, handlers, opener, overlay, log>>

storageRecovers ==
    /\ storage = "unavailable"
    /\ storage' = "ok"
    /\ UNCHANGED <<diffed, build, loaded, activeFile, content, file, clock,
                   updatedTimestamp, updateTimer, handlers, opener, overlay, log>>

fileCorrupted ==
    /\ file.exists /\ file.parses
    /\ file' = Corrupt
    /\ UNCHANGED <<diffed, build, storage, loaded, activeFile, content, clock,
                   updatedTimestamp, updateTimer, handlers, opener, overlay, log>>

(***************************************************************************)
(* The scheduling the design assumes: the host delivers one event at a     *)
(* time and the next one only after every pending handler has settled.     *)
(* Spec allows every interleaving of the awaits; SerialSpec only these.    *)
(***************************************************************************)
Settled == Quiescent /\ opener = "idle"

SerialNext ==
    \/ onload
    \/ Settled /\ InsertLines
    \/ Settled /\ DeleteLines
    \/ Settled /\ ReplaceLine
    \/ Settled /\ RepeatChange
    \/ \E h \in Slots : updateLineTimestamp(h)
    \/ \E h \in Slots : createFolder(h)
    \/ \E h \in Slots : create(h)
    \/ \E h \in Slots : write(h)
    \/ timerExpired
    \/ Settled /\ fileOpen
    \/ fileOpened

SerialSpec == Init /\ [][SerialNext]_vars

\* one event at a time, each an edit within a line of the file that was
\* active at start, over a storage that can fail
FaultNext ==
    \/ onload
    \/ Settled /\ ReplaceLine
    \/ Settled /\ RepeatChange
    \/ \E h \in Slots : updateLineTimestamp(h)
    \/ \E h \in Slots : createFolder(h)
    \/ \E h \in Slots : create(h)
    \/ \E h \in Slots : write(h)
    \/ timerExpired
    \/ storageFails
    \/ storageRecovers
    \/ fileCorrupted

FaultSpec == Init /\ [][FaultNext]_vars

(***************************************************************************)
(* Every interleaving of the handlers and the timer, for edits within a    *)
(* line of the file that was active at start.                              *)
(***************************************************************************)
TypingNext ==
    \/ onload
    \/ ReplaceLine
    \/ RepeatChange
    \/ \E h \in Slots : updateLineTimestamp(h)
    \/ \E h \in Slots : createFolder(h)
    \/ \E h \in Slots : create(h)
    \/ \E h \in Slots : write(h)
    \/ timerExpired

TypingSpec == Init /\ [][TypingNext]_vars

(***************************************************************************)
(* The line diff engine, computeEditScript(oldLines, newLines): a shortest *)
(* script of equal / insert / delete / replace runs over the two line      *)
(* sequences, the earliest equal lines matched first.  Ranges are given    *)
(* by the 0-based start and the length on either side.                     *)
(***************************************************************************)
\* lines handed to the diff engine
DiffTexts == {"a", "b", "c"}

Min(a, b) == IF a <= b THEN a ELSE b

\* the least number of inserted plus deleted lines
RECURSIVE Distance(_, _)
Distance(x, y) ==
    IF x = <<>> THEN Len(y)
    ELSE IF y = <<>> THEN Len(x)
    ELSE IF Head(x) = Head(y) THEN Distance(Tail(x), Tail(y))
    ELSE 1 + Min(Distance(Tail(x), y), Distance(x, Tail(y)))

\* the slip of comparing the sequences position by position
RECURSIVE LineOpsByPosition(_, _)
LineOpsByPosition(x, y) ==
    IF x = <<>> THEN [i \in 1 .. Len(y) |-> "insert"]
    ELSE IF y = <<>> THEN [i \in 1 .. Len(x) |-> "delete"]
    ELSE IF Head(x) = Head(y) THEN <<"equal">> \o LineOpsByPosition(Tail(x), Tail(y))
    ELSE <<"delete", "insert">> \o LineOpsByPosition(Tail(x), Tail(y))

\* one step per line of a shortest script: equal consumes a line of both
\* sequences, delete one of x, insert one of y
RECURSIVE LineOps(_, _)
LineOps(x, y) ==
    IF x = <<>> THEN [i \in 1 .. Len(y) |-> "insert"]
    ELSE IF y = <<>> THEN [i \in 1 .. Len(x) |-> "delete"]
    ELSE IF Head(x) = Head(y) THEN <<"equal">> \o LineOps(Tail(x), Tail(y))
    ELSE IF Distance(Tail(x), y) <= Distance(x, Tail(y))
         THEN <<"delete">> \o LineOps(Tail(x), y)
         ELSE <<"insert">> \o LineOps(x, Tail(y))

\* the script acc, which has consumed i old and j new lines, with one more
\* line step: the last run grows, a delete next to an insert becomes a
\* replace, or a new run starts
Extend(acc, step, i, j) ==
    LET dOld == IF step = "insert" THEN 0 ELSE 1
        dNew == IF step = "delete" THEN 0 ELSE 1
        last == acc[Len(acc)]
        grown(op) == [acc EXCEPT ![Len(acc)] =
                         [last EXCEPT !.op = op, !.oldLen = @ + dOld, !.newLen = @ + dNew]]
    IN  IF acc # <<>> /\ last.op = step THEN grown(step)
        ELSE IF acc # <<>> /\ step # "equal" /\ last.op # "equal" THEN grown("replace")
        ELSE Append(acc, [op |-> step, oldStart |-> i, oldLen |-> dOld,
                          newStart |-> j, newLen |-> dNew])

RECURSIVE Runs(_, _, _, _)
Runs(steps, acc, i, j) ==
    IF steps = <<>> THEN acc
    ELSE Runs(Tail(steps), Extend(acc, Head(steps), i, j),
              IF Head(steps) = "insert" THEN i ELSE i + 1,
              IF Head(steps) = "delete" THEN j ELSE j + 1)

computeEditScript(oldLines, newLines) == Runs(LineOps(oldLines, newLines), <<>>, 0, 0)

\* the lines the script yields from oldLines: equal runs are copied from
\* oldLines, inserted and replacing runs are taken from newLines
RECURSIVE Apply(_, _, _)
Apply(script, oldLines, newLines) ==
    IF script = <<>> THEN <<>>
    ELSE LET o == Head(script)
             out == IF o.op = "equal"
                    THEN SubSeq(oldLines, o.oldStart + 1, o.oldStart + o.oldLen)
                    ELSE SubSeq(newLines, o.newStart + 1, o.newStart + o.newLen)
         IN  out \o Apply(Tail(script), oldLines, newLines)

LinesUpTo(n) == UNION {[1 .. m -> DiffTexts] : m \in 0 .. n}

DiffInit ==
    /\ Init
    /\ build = "src/main" /\ activeFile = "a.md" /\ file = NotFound

\* the engine is given a content of fewer than MaxLines lines ...
contentKnown ==
    /\ ~diffed.given
    /\ \E lines \in LinesUpTo(MaxLines - 1) :
          diffed' = [given |-> TRUE, oldLines |-> lines, newLines |-> lines,
                     script |-> <<>>]
    /\ UNCHANGED <<build, loaded, activeFile, content, file, storage, clock,
                   updatedTimestamp, updateTimer, handlers, opener, overlay, log>>

\* ... and then the same content with one line more, at position k
lineInserted ==
    /\ diffed.given
    /\ diffed.script = <<>>
    /\ diffed.newLines = diffed.oldLines
    /\ \E k \in 0 .. Len(diffed.oldLines), t \in DiffTexts :
          diffed' = [diffed EXCEPT !.newLines =
                        SubSeq(@, 1, k) \o <<t>> \o SubSeq(@, k + 1, Len(@))]
    /\ UNCHANGED <<build, loaded, activeFile, content, file, storage, clock,
                   updatedTimestamp, updateTimer, handlers, opener, overlay, log>>

scriptComputed ==
    /\ diffed.script = <<>>
    /\ diffed.newLines # diffed.oldLines
    /\ diffed' = [diffed EXCEPT !.script = computeEditScript(diffed.oldLines, diffed.newLines)]
    /\ UNCHANGED <<build, loaded, activeFile, content, file, storage, clock,
                   updatedTimestamp, updateTimer, handlers, opener, overlay, log>>

DiffNext ==
    \/ contentKnown
    \/ lineInserted
    \/ scriptComputed

DiffSpec == DiffInit /\ [][DiffNext]_vars

(***************************************************************************)
(* What the properties read from the log.                                  *)
(***************************************************************************)
\* updateLineTimestamp ran through its save for this event
Handled(e) == e.status \in {"saved", "overlayThrew"}

\* the line maps of the event's document before the event and after its save
Before(e) == EntryMap(e.pre, e.path)

After(e) == EntryMap(e.post, e.path)

\* every line of the document had a timestamp before the event
Stamped(e) == \A n \in 0 .. (e.edit.oldLen - 1) : LineKey(n) \in DOMAIN Before(e)

\* an event handled with no other handler pending between it and its save
HandledAlone(e, kind) == Handled(e) /\ e.alone /\ e.edit.kind = kind

\* old after m lines stamped t were inserted at k: lines from k on move up by m
ShiftedUp(old, k, m, t, oldLen) ==
    [key \in {LineKey(n) : n \in 0 .. (oldLen + m - 1)} |->
        LET n == LineOf(key)
        IN  IF n < k THEN old[key]
            ELSE IF n < k + m THEN t
            ELSE old[LineKey(n - m)]]

\* old after lines k .. k+m-1 were removed: lines from k+m on move down by m
ShiftedDown(old, k, m, oldLen) ==
    [key \in {LineKey(n) : n \in 0 .. (oldLen - m - 1)} |->
        LET n == LineOf(key)
        IN  IF n < k THEN old[key] ELSE old[LineKey(n + m)]]

(***************************************************************************)
(* C1  Stability under pure shift: after the change event of an edit that  *)
(* inserts one line at index k into a document whose lines all have        *)
(* timestamps, the timestamps below k are unchanged, the timestamp that    *)
(* was at each i >= k is at i+1, and index k has the time of the edit.     *)
(***************************************************************************)
C1_StabilityUnderPureShift ==
    \A i \in DOMAIN log :
        LET e == log[i]
        IN  (HandledAlone(e, "insert") /\ e.edit.m = 1 /\ Stamped(e)) =>
                After(e) = ShiftedUp(Before(e), e.edit.k, 1, e.timestamp, e.edit.oldLen)

(***************************************************************************)
(* C2  Deletion removes exactly its range: after the change event of an    *)
(* edit that removes lines [i, j) of a document whose lines all have       *)
(* timestamps, the timestamps of i..j-1 are gone, the timestamp that was   *)
(* at each n >= j is at n-(j-i), and those below i are unchanged.          *)
(***************************************************************************)
C2_DeletionRemovesItsRange ==
    \A i \in DOMAIN log :
        LET e == log[i]
        IN  (HandledAlone(e, "delete") /\ Stamped(e)) =>
                After(e) = ShiftedDown(Before(e), e.edit.k, e.edit.m, e.edit.oldLen)

(***************************************************************************)
(* C3  Entry-map index invariant: once a change of a document has been     *)
(* handled, every line index with a timestamp in its persisted entry map   *)
(* is below the line count of the content of that change (entries beyond   *)
(* the content have been pruned).                                          *)
(***************************************************************************)
C3_EntryIndicesWithinContent ==
    \A i \in DOMAIN log :
        LET e == log[i]
        IN  (Handled(e) /\ e.alone) =>
                \A key \in DOMAIN After(e) : LineOf(key) < e.edit.newLen

(***************************************************************************)
(* C4  No lost updates: when all handlers have completed, the persisted    *)
(* store holds, for every handler that saved, a stamp of its line that is  *)
(* its own or a later one.                                                 *)
(***************************************************************************)
C4_NoLostUpdates ==
    Quiescent =>
        \A i \in DOMAIN log :
            LET e == log[i]
                now == EntryMap(Persisted, e.path)
            IN  Handled(e) =>
                    /\ LineKey(e.line) \in DOMAIN now
                    /\ InstantOf(now[LineKey(e.line)]) >= InstantOf(e.timestamp)

(***************************************************************************)
(* C5  Lazy creation on first edit: a change event delivered to the        *)
(* registered handler when no persisted store exists completes             *)
(* successfully and leaves a persisted store that holds the document with  *)
(* the stamp of the edited line.                                           *)
(***************************************************************************)
C5_LazyCreationOnFirstEdit ==
    \A i \in DOMAIN log :
        LET e == log[i]
        IN  (~e.stored /\ e.status \notin {"pending", "unregistered"}) =>
                /\ e.status = "saved"
                /\ file.exists
                /\ LineKey(e.line) \in DOMAIN After(e)
                /\ After(e)[LineKey(e.line)] = e.timestamp

(***************************************************************************)
(* C6  Every change is persisted: every editor-change event delivered to   *)
(* the registered handler while the store exists is processed through its  *)
(* save, and the store then holds the time of the event at the edited      *)
(* line; none is dropped while an earlier event's debounce window is open. *)
(***************************************************************************)
C6_EveryChangePersisted ==
    \A i \in DOMAIN log :
        LET e == log[i]
        IN  (e.stored /\ e.status \notin {"pending", "unregistered"}) =>
                /\ Handled(e)
                /\ LineKey(e.line) \in DOMAIN After(e)
                /\ After(e)[LineKey(e.line)] = e.timestamp

(***************************************************************************)
(* C7  The persisted timestamp of a line is that of its most recent edit:  *)
(* no step replaces the timestamp the store holds for a line by an         *)
(* earlier one.                                                            *)
(***************************************************************************)
C7_NeverReplacedByEarlier ==
    [][\A p \in DOMAIN Persisted \cap DOMAIN Persisted' :
          \A key \in DOMAIN Persisted[p] \cap DOMAIN Persisted'[p] :
              InstantOf(Persisted'[p][key]) >= InstantOf(Persisted[p][key])]_vars

(***************************************************************************)
(* C8  Every inserted line is stamped: after the change event of an edit   *)
(* that inserts m >= 1 lines at [k, k+m), every index in [k, k+m) has the  *)
(* time of the edit.                                                       *)
(***************************************************************************)
C8_EveryInsertedLineStamped ==
    \A i \in DOMAIN log :
        LET e == log[i]
        IN  HandledAlone(e, "insert") =>
                \A n \in e.edit.k .. (e.edit.k + e.edit.m - 1) :
                    /\ LineKey(n) \in DOMAIN After(e)
                    /\ After(e)[LineKey(n)] = e.timestamp

(***************************************************************************)
(* C9  Idempotence of a no-op change: a change event for content equal to  *)
(* the content of the previous event leaves the document's persisted       *)
(* entry map as it was.                                                    *)
(***************************************************************************)
C9_NoOpChangeIsIdempotent ==
    \A i \in DOMAIN log :
        LET e == log[i]
        IN  HandledAlone(e, "none") => After(e) = Before(e)

(***************************************************************************)
(* C10  In-place replace touches only the edited line: after the change    *)
(* event of an edit that changes the text of line k of a document whose    *)
(* lines all have timestamps, index k has the time of the edit and every   *)
(* other line of the document has the timestamp it had.                    *)
(***************************************************************************)
C10_ReplaceTouchesOnlyEditedLine ==
    \A i \in DOMAIN log :
        LET e == log[i]
        IN  (HandledAlone(e, "replace") /\ Stamped(e)) =>
                After(e) = (LineKey(e.edit.k) :> e.timestamp) @@ Before(e)

\* a replace of a line of a fully stamped document has been handled, and
\* another line of the document still has its earlier timestamp
C10_Witness ==
    \E i \in DOMAIN log :
        LET e == log[i]
        IN  /\ HandledAlone(e, "replace") /\ Stamped(e)
            /\ \E key \in DOMAIN After(e) :
                  InstantOf(After(e)[key]) < InstantOf(e.timestamp)

Failed(e) == e.status \in {"loadFailed", "saveFailed"}

(***************************************************************************)
(* C11: a failure of loading or saving while a change event is handled     *)
(* rejects the handler and leaves the debounce flag and the timer as they  *)
(* were: the step in which an event fails changes neither, and an event is *)
(* only ever dropped by the debounce after an earlier event was stamped.   *)
(***************************************************************************)
C11_FailureDoesNotAdvanceDebounce ==
    /\ [](\A i \in DOMAIN log :
            log[i].status = "dropped" =>
               \E j \in 1 .. (i - 1) : log[j].status = "saved")
    /\ [][\A i \in DOMAIN log :
            (log[i].status = "pending" /\ Failed(log'[i])) =>
               /\ updatedTimestamp' = updatedTimestamp
               /\ updateTimer' = updateTimer]_vars

\* src/main.ts: a save failed and the next change event was taken up
C11_Witness ==
    /\ build = "main"
    /\ \E i \in DOMAIN log :
          /\ log[i].status = "saveFailed"
          /\ \E j \in DOMAIN log : j > i /\ log[j].status = "pending"

Unreadable == storage # "ok" \/ ~file.exists \/ ~file.parses

(***************************************************************************)
(* C12: a change that cannot load the store never writes it.  The handler  *)
(* whose loadMetadata settles on a store that cannot be read or parsed     *)
(* ends there and leaves the file as it was; and every text the plugin     *)
(* puts in the file is the snapshot of a handler that got past its load,   *)
(* never the empty store, and drops nothing the file held.                 *)
(***************************************************************************)
C12_FailedChangeNeverWrites ==
    [][/\ \A h \in Slots :
            (handlers[h].pc = "read" /\ handlers'[h].pc # "read" /\ Unreadable) =>
               /\ file' = file
               /\ handlers'[h].pc = "idle"
               /\ log'[handlers[h].id].status = "loadFailed"
       /\ (file' # file /\ file'.parses) =>
            /\ \E h \in Slots :
                  /\ handlers[h].pc \in {"create", "write"}
                  /\ handlers[h].content = JSONstringify(handlers[h].metadata)
                  /\ file' = FileWith(handlers[h].content)
            /\ file'.text # <<>>
            /\ \A q \in DOMAIN Persisted :
                  /\ q \in DOMAIN Persisted'
                  /\ DOMAIN Persisted[q] \subseteq DOMAIN Persisted'[q]]_vars

\* an event failed on a store that does not parse, and the file is still that
C12_Witness ==
    /\ file = Corrupt
    /\ storage = "ok"
    /\ \E i \in DOMAIN log : log[i].status = "loadFailed" /\ log[i].stored

(***************************************************************************)
(* C13: reading the timestamps of a document the store has no entry for    *)
(* gives the empty mapping and no error: when the file-open handler has    *)
(* loaded a store that has no entry for the file now active, its overlay   *)
(* does not throw and shows no timestamp.                                  *)
(***************************************************************************)
C13_NoHistoryReadsEmpty ==
    [][(/\ opener = "read" /\ opener' = "idle"
        /\ Loadable
        /\ activeFile \notin DOMAIN Persisted) =>
          (~overlay'.threw /\ overlay'.shown = {})]_vars

(***************************************************************************)
(* C14: a document is read under the identifier it is written under, and   *)
(* never under another document's: whenever the overlay is redrawn, it     *)
(* does not throw if the store holds an entry for the active file's path,  *)
(* and every timestamp it shows is the one the store holds for that line   *)
(* of that path.                                                           *)
(***************************************************************************)
C14_OneIdentifierPerDocument ==
    [][overlay' # overlay =>
          /\ activeFile' \in DOMAIN Persisted' => ~overlay'.threw
          /\ \A b \in overlay'.shown :
                /\ LineKey(b[1]) \in DOMAIN EntryMap(Persisted', activeFile')
                /\ EntryMap(Persisted', activeFile')[LineKey(b[1])] = b[2]]_vars

Saving == {h \in Slots : handlers[h].pc \in {"mkdir", "create", "write"}}

(***************************************************************************)
(* C15: persistence round-trips.  Saving what loadMetadata returns would   *)
(* write the text the file already has, and loading the text saveMetadata  *)
(* writes returns the object that was saved.                               *)
(***************************************************************************)
C15_RoundTrip ==
    /\ (file.exists /\ file.parses) =>
          JSONstringify(JSONparse(file.text)) = file.text
    /\ \A h \in Saving :
          /\ JSONparse(handlers[h].content) = handlers[h].metadata
          /\ JSONstringify(JSONparse(handlers[h].content)) = handlers[h].content

\* a snapshot of two documents, the one stamped first ordered first, is
\* being saved over a store that holds one document
C15_Witness ==
    /\ file.exists /\ file.parses /\ Len(file.text) = 1
    /\ \E h \in Saving :
          /\ handlers[h].metadata.keys = <<"dir/a.md", "a.md">>
          /\ handlers[h].pc = "write"

OpsOf(script, op) == {n \in DOMAIN script : script[n].op = op}

SingleInsertionDiffed == diffed.script # <<>>

(***************************************************************************)
(* C16, as stated: for a content and the same content with one line        *)
(* inserted, the edit script has exactly one insert run, of length 1, one  *)
(* or two equal runs and nothing else, and applying it to the old lines    *)
(* gives the new lines.                                                    *)
(***************************************************************************)
C16_SingleInsertionScript ==
    SingleInsertionDiffed =>
       /\ Cardinality(OpsOf(diffed.script, "insert")) = 1
       /\ \A n \in OpsOf(diffed.script, "insert") : diffed.script[n].newLen = 1
       /\ Cardinality(OpsOf(diffed.script, "equal")) \in {1, 2}
       /\ Len(diffed.script) = 1 + Cardinality(OpsOf(diffed.script, "equal"))
       /\ Apply(diffed.script, diffed.oldLines, diffed.newLines) = diffed.newLines

(***************************************************************************)
(* C16, amended: the same, with at most two equal runs: none when the old  *)
(* content has no line, one or two otherwise.                              *)
(***************************************************************************)
C16_SingleInsertionScriptAmended ==
    SingleInsertionDiffed =>
       /\ Cardinality(OpsOf(diffed.script, "insert")) = 1
       /\ \A n \in OpsOf(diffed.script, "insert") : diffed.script[n].newLen = 1
       /\ Cardinality(OpsOf(diffed.script, "equal")) \in
             (IF diffed.oldLines = <<>> THEN {0} ELSE {1, 2})
       /\ Len(diffed.script) = 1 + Cardinality(OpsOf(diffed.script, "equal"))
       /\ Apply(diffed.script, diffed.oldLines, diffed.newLines) = diffed.newLines

\* a line inserted between two other lines: an equal run on either side
C16_Witness ==
    /\ SingleInsertionDiffed
    /\ diffed.oldLines = <<"a", "b">>
    /\ diffed.newLines = <<"a", "c", "b">>
    /\ Cardinality(OpsOf(diffed.script, "equal")) = 2

(***************************************************************************)
(* C17: the debounce of src/main.ts always re-opens.  In every state,      *)
(* whatever the interleaving of the handlers, a set updatedTimestamp has   *)
(* its reset timer pending: the step of the timer, which resets the flag,  *)
(* can be taken.                                                           *)
(***************************************************************************)
C17_DebounceReopens ==
    updatedTimestamp => (updateTimer /\ ENABLED timerExpired)

\* src/main.ts: two overlapping handlers have both saved, the flag is set
\* and the timer armed
C17_Witness ==
    /\ build = "main"
    /\ updatedTimestamp /\ updateTimer
    /\ Len(log) = 2
    /\ log[1].status = "saved" /\ log[2].status = "saved"
    /\ ~log[1].alone

(***************************************************************************)
(* C18: the debounce of src/main.ts bounds the writes: no handler saves    *)
(* the store while updatedTimestamp is true, so that there is at most one  *)
(* write between two expiries of the timer.                                *)
(***************************************************************************)
C18_NoSaveWhileDebounced ==
    [][\A i \in DOMAIN log :
         (log[i].status = "pending" /\ Handled(log'[i])) => ~updatedTimestamp]_vars

(***************************************************************************)
(* C19: a save that succeeded completes the handler: when                  *)
(* updateLineTimestamp has saved the store, the overlay that follows does  *)
(* not throw, whatever file is active, and in src/main.ts                  *)
(* handleEditorChange goes on to set updatedTimestamp and arm the timer.   *)
(***************************************************************************)
C19_SavedHandlerCompletes ==
    [][\A i \in DOMAIN log :
         (log[i].status = "pending" /\ Handled(log'[i])) =>
            /\ ~overlay'.threw
            /\ build = "main" => (updatedTimestamp' /\ updateTimer')]_vars

(***************************************************************************)
(* C20: the frame of one stamp.  After an updateLineTimestamp(filePath,    *)
(* lineNumber, timestamp) that ran with no other handler pending, the      *)
(* store differs from the store before only at the entry (filePath,        *)
(* lineNumber): the other documents and the other lines of filePath are    *)
(* as they were.  And the paths that only read (onload, file-open) leave   *)
(* the store file as it is.                                                *)
(***************************************************************************)
C20_FrameOfAStamp ==
    /\ [](\A i \in DOMAIN log :
            LET e == log[i]
            IN  (Handled(e) /\ e.alone) =>
                   /\ DOMAIN e.post = DOMAIN e.pre \cup {e.path}
                   /\ \A q \in DOMAIN e.pre \ {e.path} : e.post[q] = e.pre[q]
                   /\ After(e) = (LineKey(e.line) :> e.timestamp) @@ Before(e))
    /\ [][(loaded' # loaded \/ activeFile' # activeFile \/ opener' # opener) =>
            file' = file]_vars

\* a line was stamped, on its own, in a store that held another document
\* and an earlier stamp of another line of the same document, and the
\* file-open handler has run since
C20_Witness ==
    /\ build = "src/main"
    /\ opener = "idle" /\ overlay.shown # {}
    /\ \E i \in DOMAIN log :
          LET e == log[i]
          IN  /\ Handled(e) /\ e.alone
              /\ e.path # activeFile
              /\ \E q \in DOMAIN e.pre \ {e.path} : DOMAIN e.pre[q] # {}
              /\ \E k \in DOMAIN Before(e) : k # LineKey(e.line)

====
